---- MODULE Spec2Model ----
(***************************************************************************)
(* Disc Sales POS backend: accounts (register / login / approve), the     *)
(* token guard of the protected routes, products, the sale transaction    *)
(* and the socket.io broadcast layer, as implemented by the express       *)
(* server.  The relational store is modelled as committed tables plus the *)
(* private workspace of an open transaction.                               *)
(***************************************************************************)
EXTENDS Integers, Sequences, FiniteSets, TLC

VARIABLES
  users,      \* table users: id -> row
  userSeq,    \* users_id_seq: the next SERIAL value
  products,   \* table products: id -> row
  prodSeq,    \* products_id_seq
  sales,      \* table sales (committed rows): id -> row
  saleSeq,    \* sales_id_seq
  saleItems,  \* table sale_items (committed rows): id -> row
  itemSeq,    \* sale_items_id_seq
  issued,     \* tokens signed by jwt.sign so far (what clients may hold)
  now,        \* wall clock, in days
  sockets,    \* socket.io connection id -> "fresh" | "open" | "closed"
  activeUsers,\* Map socket.id -> userData announced by 'authenticate'
  inbox,      \* per connection: the events the client has received
  reqs,       \* per request slot: the HTTP request being handled / last handled
  txn,        \* per request slot: the open store transaction of createSale
  nreq,       \* number of HTTP requests accepted so far
  nsock       \* number of socket messages handled so far

vars == <<users, userSeq, products, prodSeq, sales, saleSeq, saleItems, itemSeq,
          issued, now, sockets, activeUsers, inbox, reqs, txn, nreq, nsock>>

storeVars == <<users, userSeq, products, prodSeq, sales, saleSeq, saleItems, itemSeq>>
sockVars == <<sockets, activeUsers, inbox, nsock>>

----------------------------------------------------------------------------
(* Bounds of the model *)

MaxReq == 2
MaxAccountReq == 4
MaxRaceReq == 3
MaxSaleReq == 3
MaxFaultReq == 3
MaxSaleRaceReq == 3
MaxRelay == 1
MaxSock == 3
MaxDays == 1

(* Program constants *)

TokenTTLDays == 1
LowStockThreshold == 10

NULL == -1

Slots == {1, 2}
Conns == {"c1", "c2"}
NoConn == "none"

JWT_SECRET == "JWT_SECRET"

Roles == {"superadmin", "admin", "manager", "cashier"}
Statuses == {"active", "pending", "blocked"}

----------------------------------------------------------------------------
(* bcrypt: a salted one-way hash.  The digest is a function of salt and     *)
(* password that is injective on the modelled passwords; compare()          *)
(* recomputes it from the candidate and the salt stored in the hash.        *)

Salts == {"saltA", "saltB"}

Digest(pw, salt) == <<salt, pw>>

BcryptHash(pw, salt) == [salt |-> salt, digest |-> Digest(pw, salt)]

BcryptCompare(pw, hash) == Digest(pw, hash.salt) = hash.digest

----------------------------------------------------------------------------
(* The store as initializeDatabase leaves it.                               *)

DefaultAdmin ==
  [full_name |-> "Super Admin", email |-> "admin@disc.com",
   password |-> BcryptHash("admin123", "saltA"),
   role |-> "superadmin", status |-> "active", last_login |-> NULL]

ExistingUser(name, email, role, status) ==
  [full_name |-> name, email |-> email, password |-> BcryptHash("pw", "saltA"),
   role |-> role, status |-> status, last_login |-> NULL]

\* tables missing: created, and the default super admin inserted
FreshUsers == (1 :> DefaultAdmin)

\* tables already exist and hold no user yet
NoUsers == [i \in {} |-> DefaultAdmin]

\* tables already exist and hold accounts of every role and status in use
PopulatedUsers ==
  (1 :> DefaultAdmin) @@
  (2 :> ExistingUser("Mona", "mgr@x.com", "manager", "active")) @@
  (3 :> ExistingUser("Pete", "pend@x.com", "cashier", "pending")) @@
  (4 :> ExistingUser("Bea", "blk@x.com", "cashier", "blocked"))

Product(name, stock) ==
  [name |-> name, category |-> "disc", purchase_price |-> 500,
   selling_price |-> 1000, stock |-> stock, updated_at |-> 0]

NoProducts == [i \in {} |-> Product("x", 0)]

PopulatedProducts == (1 :> Product("CD-A", 20)) @@ (2 :> Product("CD-B", 1))

NoSales == [i \in {} |-> [customer |-> "", total |-> 0, user_id |-> 0, date |-> 0]]

NoItems == [i \in {} |-> [sale_id |-> 0, product_id |-> 0, quantity |-> 0,
                          unit_price |-> 0, total_price |-> 0]]

Databases ==
  { [users |-> FreshUsers, products |-> NoProducts],
    [users |-> NoUsers, products |-> NoProducts],
    [users |-> PopulatedUsers, products |-> PopulatedProducts] }

NextId(table) == IF DOMAIN table = {} THEN 1
                 ELSE 1 + CHOOSE m \in DOMAIN table : \A k \in DOMAIN table : k <= m

----------------------------------------------------------------------------
(* HTTP requests *)

Idle == [pc |-> "idle", kind |-> "none", status |-> 0]

Busy(s) == reqs[s].pc \notin {"idle", "done"}

\* a request is accepted on slot s; `limit` holds the number of requests the
\* specification lets run at the same time and the number it accepts in all
CanStart(s, limit) ==
  /\ ~Busy(s)
  /\ s <= limit.inflight
  /\ Cardinality({t \in Slots : Busy(t)}) < limit.inflight
  /\ nreq < limit.requests

Respond(s, r, status, body) ==
  reqs' = [reqs EXCEPT ![s] = [pc |-> "done", kind |-> r.kind, in |-> r.in,
                               auth |-> r.auth, conn |-> r.conn,
                               status |-> status, body |-> body]]

Request(kind, auth, conn, in) == [kind |-> kind, auth |-> auth, conn |-> conn, in |-> in]

NoAuth == <<>>

\* per request: no pooled client held; a client checked out of the pool;
\* a client whose connection to the store is lost (the store aborts its
\* transaction)
NoTxn == [open |-> FALSE, client |-> FALSE]

Acquired == [open |-> FALSE, client |-> TRUE]

Lost == [open |-> FALSE, client |-> TRUE, lost |-> TRUE]

ConnLost(s) == "lost" \in DOMAIN txn[s]

\* the async handler ends without having written a response
Abandon(s, r) ==
  reqs' = [reqs EXCEPT ![s] = [pc |-> "done", kind |-> r.kind, in |-> r.in,
                               auth |-> r.auth, conn |-> r.conn,
                               status |-> 0, body |-> <<>>]]

\* the promise of an async handler rejects outside any try block: a router
\* that awaits handlers passes the error to its error handler, which answers
\* 500; one that does not leaves the request unanswered
Unhandled(s, r) ==
  \/ Respond(s, r, 500, [error |-> "Internal Server Error"])
  \/ Abandon(s, r)

----------------------------------------------------------------------------
(* Tokens: jwt.sign / jwt.verify and the authenticateToken middleware *)

JwtSign(id, u, t) ==
  [id |-> id, email |-> u.email, role |-> u.role, name |-> u.full_name,
   iat |-> t, exp |-> t + TokenTTLDays, sig |-> JWT_SECRET]

JwtVerifyIgnoreExpiration(token, t) == token.sig = JWT_SECRET

\* signature, then the exp claim against the clock
JwtVerify(token, t) == token.sig = JWT_SECRET /\ t < token.exp

ForgedToken ==
  [id |-> 1, email |-> "admin@disc.com", role |-> "superadmin", name |-> "Super Admin",
   iat |-> 0, exp |-> 1000, sig |-> "attacker"]

\* the Authorization header, split on ' '
AuthHeaders ==
  {<<>>, <<"Bearer">>, <<"Bearer", ForgedToken>>} \cup {<<"Bearer", t>> : t \in issued}

\* authHeader && authHeader.split(' ')[1], then jwt.verify
authenticateToken(authHeader, t) ==
  IF Len(authHeader) < 2
  THEN [ok |-> FALSE, status |-> 401, error |-> "Access token required"]
  ELSE IF ~JwtVerify(authHeader[2], t)
  THEN [ok |-> FALSE, status |-> 403, error |-> "Invalid or expired token"]
  ELSE [ok |-> TRUE, status |-> 200, user |-> authHeader[2]]

ProtectedRoutes ==
  {"users", "pending", "approve", "products", "createProduct", "stock",
   "sale", "sales", "stats"}

\* the middleware answers 401 / 403 itself and does not call next()
AuthReject(s, limit) ==
  /\ CanStart(s, limit)
  /\ \E route \in ProtectedRoutes, h \in AuthHeaders :
    LET r == Request(route, h, NoConn, <<>>)
        a == authenticateToken(h, now) IN
    /\ nreq' = nreq + 1
    /\ ~a.ok
    /\ Respond(s, r, a.status, [error |-> a.error])
    /\ UNCHANGED <<storeVars, issued, now, sockVars, txn>>

IsAdminOrManager(user) == user.role \in {"superadmin", "admin", "manager"}

\* ['superadmin', 'admin'].includes(req.user.role)
IsAdmin(user) == user.role \in {"superadmin", "admin"}

Public(id) ==
  [id |-> id, full_name |-> users[id].full_name, email |-> users[id].email,
   role |-> users[id].role, status |-> users[id].status]

----------------------------------------------------------------------------
(* POST /api/register *)

RegNames == {"", "Ann"}
RegEmails == {"", "a@x.com", "b@x.com", "admin@disc.com"}
RegPasswords == {"", "pw"}

EmailRows(email) == {i \in DOMAIN users : users[i].email = email}

\* validation, SELECT ... WHERE email = $1, bcrypt.hash
RegisterCheck(s, limit) ==
  /\ CanStart(s, limit)
  /\ \E name \in RegNames, email \in RegEmails, pw \in RegPasswords, salt \in Salts :
    LET r == Request("register", NoAuth, NoConn,
                     [full_name |-> name, email |-> email, password |-> pw]) IN
    /\ nreq' = nreq + 1
    /\ IF name = "" \/ email = "" \/ pw = ""
       THEN Respond(s, r, 400, [error |-> "All fields are required"])
       ELSE IF EmailRows(email) # {}
       THEN Respond(s, r, 400, [error |-> "User already exists"])
       ELSE reqs' = [reqs EXCEPT ![s] =
                       [pc |-> "reg_count", kind |-> "register", in |-> r.in,
                        auth |-> NoAuth, conn |-> NoConn, status |-> 0,
                        hashedPassword |-> BcryptHash(pw, salt)]]
    /\ UNCHANGED <<storeVars, issued, now, sockVars, txn>>

IsFirstUserOffByOne(count) == count <= 1

\* parseInt(userCount.rows[0].count) === 0
IsFirstUser(count) == count = 0

\* SELECT COUNT(*) FROM users
RegisterCount(s) ==
  /\ reqs[s].pc = "reg_count"
  /\ reqs' = [reqs EXCEPT ![s] =
                [pc |-> "reg_insert", kind |-> "register", in |-> reqs[s].in,
                 auth |-> NoAuth, conn |-> NoConn, status |-> 0,
                 hashedPassword |-> reqs[s].hashedPassword,
                 isFirstUser |-> IsFirstUser(Cardinality(DOMAIN users))]]
  /\ UNCHANGED <<storeVars, issued, now, sockVars, txn, nreq>>

\* INSERT INTO users ... RETURNING; email is UNIQUE
RegisterInsert(s) ==
  /\ reqs[s].pc = "reg_insert"
  /\ LET r == reqs[s]
         role == IF r.isFirstUser THEN "superadmin" ELSE "cashier"
         status == IF r.isFirstUser THEN "active" ELSE "pending"
         row == [full_name |-> r.in.full_name, email |-> r.in.email,
                 password |-> r.hashedPassword, role |-> role, status |-> status,
                 last_login |-> NULL]
     IN
     /\ userSeq' = userSeq + 1
     /\ IF EmailRows(r.in.email) # {}
        THEN /\ users' = users
             /\ Respond(s, r, 500, [error |-> "Registration failed"])
        ELSE /\ users' = users @@ (userSeq :> row)
             /\ Respond(s, r, 200,
                        [user |-> [id |-> userSeq, full_name |-> row.full_name,
                                   email |-> row.email, role |-> role, status |-> status],
                         requiresApproval |-> ~r.isFirstUser])
  /\ UNCHANGED <<products, prodSeq, sales, saleSeq, saleItems, itemSeq,
                 issued, now, sockVars, txn, nreq>>

----------------------------------------------------------------------------
(* POST /api/login *)

LoginEmails == {"admin@disc.com", "mgr@x.com", "pend@x.com", "blk@x.com", "a@x.com"}
LoginPasswords == {"admin123", "pw"}

\* SELECT * FROM users WHERE email = $1
LoginFind(s, limit) ==
  /\ CanStart(s, limit)
  /\ \E email \in LoginEmails, pw \in LoginPasswords :
    LET r == Request("login", NoAuth, NoConn, [email |-> email, password |-> pw]) IN
    /\ nreq' = nreq + 1
    /\ IF EmailRows(email) = {}
       THEN Respond(s, r, 400, [error |-> "Invalid email or password"])
       ELSE LET id == CHOOSE i \in EmailRows(email) : TRUE IN
            reqs' = [reqs EXCEPT ![s] =
                       [pc |-> "login_compare", kind |-> "login", in |-> r.in,
                        auth |-> NoAuth, conn |-> NoConn, status |-> 0,
                        id |-> id, user |-> users[id]]]
    /\ UNCHANGED <<storeVars, issued, now, sockVars, txn>>

LoginCheckNoStatus(pw, user) ==
  IF ~BcryptCompare(pw, user.password) THEN "Invalid email or password" ELSE "ok"

\* the password check, then the status check
LoginCheck(pw, user) ==
  IF ~BcryptCompare(pw, user.password) THEN "Invalid email or password"
  ELSE IF user.status # "active" THEN "Account is pending approval"
  ELSE "ok"

\* bcrypt.compare, then the status check
LoginCompare(s) ==
  /\ reqs[s].pc = "login_compare"
  /\ LET r == reqs[s]
         verdict == LoginCheck(r.in.password, r.user) IN
     IF verdict # "ok"
     THEN Respond(s, r, 400, [error |-> verdict])
     ELSE reqs' = [reqs EXCEPT ![s].pc = "login_update"]
  /\ UNCHANGED <<storeVars, issued, now, sockVars, txn, nreq>>

\* UPDATE users SET last_login = CURRENT_TIMESTAMP WHERE id = $1; jwt.sign
LoginUpdate(s) ==
  /\ reqs[s].pc = "login_update"
  /\ LET r == reqs[s]
         token == JwtSign(r.id, r.user, now)
     IN
     /\ users' = [users EXCEPT ![r.id].last_login = now]
     /\ issued' = issued \cup {token}
     /\ Respond(s, r, 200,
                [token |-> token,
                 user |-> [id |-> r.id, full_name |-> r.user.full_name,
                           email |-> r.user.email, role |-> r.user.role,
                           status |-> r.user.status]])
  /\ UNCHANGED <<userSeq, products, prodSeq, sales, saleSeq, saleItems, itemSeq,
                 now, sockVars, txn, nreq>>

----------------------------------------------------------------------------
(* GET /api/users, GET /api/users/pending, PUT /api/users/:id/approve *)

GetUsers(s, limit) ==
  /\ CanStart(s, limit)
  /\ \E h \in AuthHeaders :
    LET r == Request("users", h, NoConn, <<>>)
        a == authenticateToken(h, now) IN
    /\ nreq' = nreq + 1
    /\ a.ok
    /\ Respond(s, r, 200, [users |-> {Public(i) : i \in DOMAIN users}])
    /\ UNCHANGED <<storeVars, issued, now, sockVars, txn>>

GetPendingUsers(s, limit) ==
  /\ CanStart(s, limit)
  /\ \E h \in AuthHeaders :
    LET r == Request("pending", h, NoConn, <<>>)
        a == authenticateToken(h, now) IN
    /\ nreq' = nreq + 1
    /\ a.ok
    /\ IF ~IsAdmin(a.user)
       THEN Respond(s, r, 403, [error |-> "Access denied. Admin only."])
       ELSE Respond(s, r, 200,
                    [users |-> {Public(i) : i \in {j \in DOMAIN users :
                                                     users[j].status = "pending"}}])
    /\ UNCHANGED <<storeVars, issued, now, sockVars, txn>>

ApproveMatchesPending(id) == {i \in DOMAIN users : i = id /\ users[i].status = "pending"}

\* WHERE id = $2
ApproveMatches(id) == {i \in DOMAIN users : i = id}

\* UPDATE users SET status = 'active' WHERE id = $2 RETURNING ...
ApproveUser(s, limit) ==
  /\ CanStart(s, limit)
  /\ \E h \in AuthHeaders, id \in 1..userSeq :
    LET r == Request("approve", h, NoConn, [id |-> id])
        a == authenticateToken(h, now) IN
    /\ nreq' = nreq + 1
    /\ a.ok
    /\ IF ~IsAdmin(a.user)
       THEN /\ Respond(s, r, 403, [error |-> "Access denied. Admin only."])
            /\ users' = users
       ELSE IF ApproveMatches(id) = {}
       THEN /\ Respond(s, r, 404, [error |-> "User not found"])
            /\ users' = users
       ELSE /\ users' = [users EXCEPT ![id].status = "active"]
            /\ Respond(s, r, 200,
                       [user |-> [id |-> id, full_name |-> users[id].full_name,
                                  email |-> users[id].email, role |-> users[id].role,
                                  status |-> "active"]])
    /\ UNCHANGED <<userSeq, products, prodSeq, sales, saleSeq, saleItems, itemSeq,
                   issued, now, sockVars, txn>>

----------------------------------------------------------------------------
(* socket.io: io.emit reaches every open connection, socket.broadcast.emit  *)
(* every open connection but the sender's.                                  *)

OpenConns == {c \in Conns : sockets[c] = "open"}

Deliver(event, targets) ==
  [c \in Conns |-> IF c \in targets THEN Append(inbox[c], event) ELSE inbox[c]]

IoEmitToAuthenticated(event) == Deliver(event, OpenConns \cap DOMAIN activeUsers)

IoEmit(event) == Deliver(event, OpenConns)

SocketBroadcastEmit(c, event) == Deliver(event, OpenConns \ {c})

\* the payload of 'authenticate' is whatever the client sends: a user object,
\* or a value that is falsy in JavaScript and not null (0, "", false), whose
\* .id and .full_name read as undefined
Truthy(id, name) == [id |-> id, full_name |-> name, truthy |-> TRUE]

FalsyData == [id |-> NULL, full_name |-> "undefined", truthy |-> FALSE]

UserDatas == {Truthy(1, "Super Admin"), Truthy(2, "Mona"), FalsyData}

\* activeUsers.get(socket.id)?.full_name
FullNameOf(c) == IF c \in DOMAIN activeUsers THEN activeUsers[c].full_name ELSE "undefined"

Connect(c) ==
  /\ sockets[c] = "fresh"
  /\ sockets' = [sockets EXCEPT ![c] = "open"]
  /\ UNCHANGED <<storeVars, issued, now, activeUsers, inbox, nsock, reqs, txn, nreq>>

Authenticate(c) ==
  \E userData \in UserDatas :
    /\ sockets[c] = "open"
    /\ nsock < MaxSock
    /\ nsock' = nsock + 1
    /\ activeUsers' = [d \in DOMAIN activeUsers \cup {c} |->
                         IF d = c THEN userData ELSE activeUsers[d]]
    /\ inbox' = SocketBroadcastEmit(c, [type |-> "user_online", from |-> c,
                                        userId |-> userData.id,
                                        userName |-> userData.full_name])
    /\ UNCHANGED <<storeVars, issued, now, sockets, reqs, txn, nreq>>

RelayProductUpdated(c) ==
  /\ sockets[c] = "open"
  /\ nsock < MaxSock
  /\ nsock' = nsock + 1
  /\ inbox' = SocketBroadcastEmit(c, [type |-> "product_updated", from |-> c,
                                      updatedBy |-> FullNameOf(c)])
  /\ UNCHANGED <<storeVars, issued, now, sockets, activeUsers, reqs, txn, nreq>>

RelaySaleCreated(c) ==
  /\ sockets[c] = "open"
  /\ nsock < MaxSock
  /\ nsock' = nsock + 1
  /\ inbox' = SocketBroadcastEmit(c, [type |-> "sale_created", from |-> c,
                                      createdBy |-> FullNameOf(c)])
  /\ UNCHANGED <<storeVars, issued, now, sockets, activeUsers, reqs, txn, nreq>>

\* const userData = activeUsers.get(socket.id); if (userData)
HasUserData(c) == c \in DOMAIN activeUsers /\ activeUsers[c].truthy

Disconnect(c) ==
  /\ sockets[c] = "open"
  /\ sockets' = [sockets EXCEPT ![c] = "closed"]
  /\ IF HasUserData(c)
     THEN /\ activeUsers' = [d \in DOMAIN activeUsers \ {c} |-> activeUsers[d]]
          /\ inbox' = SocketBroadcastEmit(c, [type |-> "user_offline", from |-> c,
                                              userId |-> activeUsers[c].id,
                                              userName |-> activeUsers[c].full_name])
     ELSE UNCHANGED <<activeUsers, inbox>>
  /\ UNCHANGED <<storeVars, issued, now, nsock, reqs, txn, nreq>>

----------------------------------------------------------------------------
(* DECIMAL(10,2): request amounts are in thousandths, stored amounts in     *)
(* hundredths; the store rounds half away from zero on insert.              *)

Decimal2(mills) ==
  IF mills >= 0 THEN (mills + 5) \div 10 ELSE 0 - ((5 - mills) \div 10)

\* the connection of the client that sends the HTTP request, if it has one
ClientConns == OpenConns \cup {NoConn}

\* a row lock taken by UPDATE products inside an open transaction
LockedBy(p) == {t \in Slots : txn[t].open /\ p \in DOMAIN txn[t].stock}

----------------------------------------------------------------------------
(* GET /api/products, POST /api/products, PUT /api/products/:id/stock *)

GetProducts(s, limit) ==
  /\ CanStart(s, limit)
  /\ \E h \in AuthHeaders :
    LET r == Request("products", h, NoConn, <<>>)
        a == authenticateToken(h, now) IN
    /\ nreq' = nreq + 1
    /\ a.ok
    /\ Respond(s, r, 200, [products |-> products])
    /\ UNCHANGED <<storeVars, issued, now, sockVars, txn>>

ProductNames == {"", "CD-C"}
ProductStocks == {0, 5}

\* !purchase_price also rejects a price of 0; stock || 0
CreateProduct(s, limit) ==
  /\ CanStart(s, limit)
  /\ \E h \in AuthHeaders, name \in ProductNames,
     selling \in {0, 10000}, stock \in ProductStocks :
    LET r == Request("createProduct", h, NoConn,
                     [name |-> name, category |-> "disc", purchase_price |-> 5000,
                      selling_price |-> selling, stock |-> stock])
        a == authenticateToken(h, now)
        row == [name |-> name, category |-> "disc",
                purchase_price |-> Decimal2(5000), selling_price |-> Decimal2(selling),
                stock |-> stock, updated_at |-> now] IN
    /\ nreq' = nreq + 1
    /\ a.ok
    /\ IF name = "" \/ selling = 0
       THEN /\ Respond(s, r, 400, [error |-> "Name, category and prices are required"])
            /\ UNCHANGED <<products, prodSeq, inbox>>
       ELSE /\ products' = products @@ (prodSeq :> row)
            /\ prodSeq' = prodSeq + 1
            /\ inbox' = IoEmit([type |-> "product_updated", from |-> "server",
                                subtype |-> "created", product |-> prodSeq,
                                user |-> a.user.name])
            /\ Respond(s, r, 200, [product |-> prodSeq])
    /\ UNCHANGED <<users, userSeq, sales, saleSeq, saleItems, itemSeq,
                   issued, now, sockets, activeUsers, nsock, txn>>

NewStocks == {0, 7}

\* UPDATE products SET stock = $1, updated_at = CURRENT_TIMESTAMP WHERE id = $2
UpdateStock(s, limit) ==
  /\ CanStart(s, limit)
  /\ \E h \in AuthHeaders, id \in 1..prodSeq, stock \in NewStocks :
    LET r == Request("stock", h, NoConn, [id |-> id, stock |-> stock])
        a == authenticateToken(h, now) IN
    /\ LockedBy(id) = {}
    /\ nreq' = nreq + 1
    /\ a.ok
    /\ IF id \notin DOMAIN products
       THEN /\ Respond(s, r, 404, [error |-> "Product not found"])
            /\ UNCHANGED <<products, inbox>>
       ELSE /\ products' = [products EXCEPT ![id].stock = stock, ![id].updated_at = now]
            /\ inbox' = IoEmit([type |-> "product_updated", from |-> "server",
                                subtype |-> "stock_updated", product |-> id,
                                user |-> a.user.name])
            /\ Respond(s, r, 200, [product |-> id])
    /\ UNCHANGED <<users, userSeq, prodSeq, sales, saleSeq, saleItems, itemSeq,
                   issued, now, sockets, activeUsers, nsock, txn>>

----------------------------------------------------------------------------
(* POST /api/sales: one transaction on a pooled connection *)

\* the lines a request may carry: amounts are in thousandths
Line(product, quantity, price) ==
  [product_id |-> product, quantity |-> quantity, unit_price |-> price]

Discs == Line(1, 3, 10000)       \* 3 x 10.00 of product 1
Cheap == Line(2, 1, 4)           \* 1 x 0.004 of product 2
Ghost == Line(9, 1, 10000)       \* a product that does not exist
Refund == Line(1, -1, 2500)      \* a negative quantity

ItemLists ==
  { <<>>, <<Discs>>, <<Discs, Discs>>, <<Discs, Cheap>>, <<Cheap, Cheap>>,
    <<Ghost, Discs>>, <<Discs, Ghost>>, <<Refund>> }

\* a total the client may put in the body; the handler reads customer and items only
ClientTotals == {NULL, 99900}

\* the bodies the requests of a specification carry: all of the above, unless
\* the specification names its own
ItemsOffered(limit) == IF "items" \in DOMAIN limit THEN limit.items ELSE ItemLists

TotalsOffered(limit) == IF "items" \in DOMAIN limit THEN {NULL} ELSE ClientTotals

\* items.reduce((sum, item) => sum + item.quantity * item.unit_price, 0)
RECURSIVE Reduce(_, _, _)
Reduce(items, i, sum) ==
  IF i > Len(items) THEN sum
  ELSE Reduce(items, i + 1, sum + items[i].quantity * items[i].unit_price)

SaleTotal(in) == Reduce(in.items, 1, 0)

\* authenticateToken, then pool.connect()
SaleConnect(s, limit) ==
  /\ CanStart(s, limit)
  /\ \E h \in AuthHeaders, c \in ClientConns,
     items \in ItemsOffered(limit), total \in TotalsOffered(limit) :
    LET r == Request("sale", h, c, [customer |-> "Walk-in", items |-> items, total |-> total])
        a == authenticateToken(h, now) IN
    /\ nreq' = nreq + 1
    /\ a.ok
    /\ reqs' = [reqs EXCEPT ![s] =
                       [pc |-> "sale_begin", kind |-> "sale", in |-> r.in, auth |-> h,
                        conn |-> c, status |-> 0, user |-> a.user]]
    /\ txn' = [txn EXCEPT ![s] = Acquired]
    /\ UNCHANGED <<storeVars, issued, now, sockVars>>

\* BEGIN, then the total is computed from the items
SaleBegin(s) ==
  /\ reqs[s].pc = "sale_begin"
  /\ txn' = [txn EXCEPT ![s] = [open |-> TRUE, client |-> TRUE, sales |-> NoSales,
                                items |-> NoItems, stock |-> [p \in {} |-> 0]]]
  /\ reqs' = [reqs EXCEPT ![s] =
                [pc |-> "sale_insert", kind |-> "sale", in |-> reqs[s].in,
                 auth |-> reqs[s].auth, conn |-> reqs[s].conn, status |-> 0,
                 user |-> reqs[s].user, total |-> SaleTotal(reqs[s].in)]]
  /\ UNCHANGED <<storeVars, issued, now, sockVars, nreq>>

AfterItem(r, i) == IF i > Len(r.in.items) THEN "sale_commit" ELSE "sale_item"

\* INSERT INTO sales (date, customer, total, user_id) ... RETURNING *
SaleInsert(s) ==
  /\ reqs[s].pc = "sale_insert"
  /\ LET r == reqs[s]
         row == [customer |-> r.in.customer, total |-> Decimal2(r.total),
                 user_id |-> r.user.id, date |-> now]
     IN
     /\ saleSeq' = saleSeq + 1
     /\ IF r.user.id \notin DOMAIN users
        THEN /\ reqs' = [reqs EXCEPT ![s].pc = "sale_rollback"]
             /\ txn' = txn
        ELSE /\ txn' = [txn EXCEPT ![s].sales = (saleSeq :> row)]
             /\ reqs' = [reqs EXCEPT ![s] =
                           [pc |-> AfterItem(r, 1), kind |-> "sale", in |-> r.in,
                            auth |-> r.auth, conn |-> r.conn, status |-> 0,
                            user |-> r.user, total |-> r.total,
                            sale |-> saleSeq, idx |-> 1]]
  /\ UNCHANGED <<users, userSeq, products, prodSeq, sales, saleItems, itemSeq,
                 issued, now, sockVars, nreq>>

\* INSERT INTO sale_items ...; product_id REFERENCES products(id)
SaleInsertItem(s) ==
  /\ reqs[s].pc = "sale_item"
  /\ LET r == reqs[s]
         item == r.in.items[r.idx]
         row == [sale_id |-> r.sale, product_id |-> item.product_id,
                 quantity |-> item.quantity, unit_price |-> Decimal2(item.unit_price),
                 total_price |-> Decimal2(item.quantity * item.unit_price)]
     IN
     /\ itemSeq' = itemSeq + 1
     /\ IF item.product_id \notin DOMAIN products
        THEN /\ reqs' = [reqs EXCEPT ![s].pc = "sale_rollback"]
             /\ txn' = txn
        ELSE /\ txn' = [txn EXCEPT ![s].items = @ @@ (itemSeq :> row)]
             /\ reqs' = [reqs EXCEPT ![s].pc = "sale_stock"]
  /\ UNCHANGED <<users, userSeq, products, prodSeq, sales, saleSeq, saleItems,
                 issued, now, sockVars, nreq>>

NoRowLock(s, p) == TRUE

\* the UPDATE takes the row's lock: it waits while another open transaction
\* has updated the row, and then works on the committed row
RowLockFree(s, p) == LockedBy(p) \subseteq {s}

StockMinusOne(current, quantity) == current - 1

\* stock - $1
StockMinus(current, quantity) == current - quantity

\* UPDATE products SET stock = stock - $1 WHERE id = $2 (waits for the row lock)
SaleUpdateStock(s) ==
  /\ reqs[s].pc = "sale_stock"
  /\ LET r == reqs[s]
         item == r.in.items[r.idx]
         p == item.product_id
         current == IF p \in DOMAIN txn[s].stock THEN txn[s].stock[p] ELSE products[p].stock
     IN
     /\ RowLockFree(s, p)
     /\ IF p \in DOMAIN products
        THEN txn' = [txn EXCEPT ![s].stock =
                       [q \in DOMAIN @ \cup {p} |->
                          IF q = p THEN StockMinus(current, item.quantity) ELSE @[q]]]
        ELSE txn' = txn
     /\ reqs' = [reqs EXCEPT ![s].idx = r.idx + 1, ![s].pc = AfterItem(r, r.idx + 1)]
  /\ UNCHANGED <<storeVars, issued, now, sockVars, nreq>>

\* COMMIT: the transaction's rows and stock updates become visible
SaleCommit(s) ==
  /\ reqs[s].pc = "sale_commit"
  /\ sales' = sales @@ txn[s].sales
  /\ saleItems' = saleItems @@ txn[s].items
  /\ products' = [p \in DOMAIN products |->
                    IF p \in DOMAIN txn[s].stock
                    THEN [products[p] EXCEPT !.stock = txn[s].stock[p]]
                    ELSE products[p]]
  /\ txn' = [txn EXCEPT ![s] = Acquired]
  /\ reqs' = [reqs EXCEPT ![s].pc = "sale_emit"]
  /\ UNCHANGED <<users, userSeq, prodSeq, saleSeq, itemSeq, issued, now, sockVars, nreq>>

\* io.emit('sale_created', ...); res.json; client.release()
SaleEmit(s) ==
  /\ reqs[s].pc = "sale_emit"
  /\ inbox' = IoEmit([type |-> "sale_created", from |-> "server", sale |-> reqs[s].sale,
                      items |-> reqs[s].in.items, user |-> reqs[s].user.name])
  /\ Respond(s, reqs[s], 200, [sale |-> reqs[s].sale])
  /\ txn' = [txn EXCEPT ![s] = NoTxn]
  /\ UNCHANGED <<storeVars, issued, now, sockets, activeUsers, nsock, nreq>>

SaleNoRollback(s) ==
  /\ reqs[s].pc = "sale_rollback"
  /\ sales' = sales @@ txn[s].sales
  /\ saleItems' = saleItems @@ txn[s].items
  /\ products' = [p \in DOMAIN products |->
                    IF p \in DOMAIN txn[s].stock
                    THEN [products[p] EXCEPT !.stock = txn[s].stock[p]]
                    ELSE products[p]]
  /\ txn' = [txn EXCEPT ![s] = NoTxn]
  /\ Respond(s, reqs[s], 500, [error |-> "violates foreign key constraint"])
  /\ UNCHANGED <<users, userSeq, prodSeq, saleSeq, itemSeq, issued, now, sockVars, nreq>>

SaleRollbackPublishes(s) ==
  /\ reqs[s].pc = "sale_rollback"
  /\ ~ConnLost(s)
  /\ txn' = [txn EXCEPT ![s] = NoTxn]
  /\ inbox' = IoEmit([type |-> "sale_created", from |-> "server", sale |-> reqs[s].sale,
                      items |-> reqs[s].in.items, user |-> reqs[s].user.name])
  /\ Respond(s, reqs[s], 500, [error |-> "violates foreign key constraint"])
  /\ UNCHANGED <<storeVars, issued, now, sockets, activeUsers, nsock, nreq>>

\* catch: ROLLBACK; res.status(500); client.release()
SaleRollback(s) ==
  /\ reqs[s].pc = "sale_rollback"
  /\ ~ConnLost(s)
  /\ txn' = [txn EXCEPT ![s] = NoTxn]
  /\ Respond(s, reqs[s], 500, [error |-> "violates foreign key constraint"])
  /\ UNCHANGED <<storeVars, issued, now, sockVars, nreq>>

\* the product whose row the request's UPDATE is about to lock
Wants(s) == reqs[s].in.items[reqs[s].idx].product_id

WaitsFor(s, t) ==
  /\ t # s
  /\ reqs[s].pc = "sale_stock"
  /\ t \in LockedBy(Wants(s))

\* two transactions wait for each other's row: the store ends the wait of one
\* with a "deadlock detected" error, which the catch block handles
SaleDeadlock(s) ==
  /\ \E t \in Slots : WaitsFor(s, t) /\ WaitsFor(t, s)
  /\ reqs' = [reqs EXCEPT ![s].pc = "sale_rollback"]
  /\ UNCHANGED <<storeVars, issued, now, sockVars, txn, nreq>>

----------------------------------------------------------------------------
(* POST /api/sales when the connection to the store is lost *)

\* pool.connect() rejects: the call is outside the try block
SaleConnectFail(s, limit) ==
  /\ CanStart(s, limit)
  /\ \E h \in AuthHeaders, c \in ClientConns, items \in ItemsOffered(limit) :
    LET r == Request("sale", h, c, [customer |-> "Walk-in", items |-> items, total |-> NULL])
        a == authenticateToken(h, now) IN
    /\ nreq' = nreq + 1
    /\ a.ok
    /\ Unhandled(s, r)
    /\ UNCHANGED <<storeVars, issued, now, sockVars, txn>>

SaleSteps == {"sale_begin", "sale_insert", "sale_item", "sale_stock", "sale_commit"}

\* client.query rejects inside the try block (BEGIN, an INSERT, the UPDATE or
\* COMMIT): control passes to the catch block; the store aborts the
\* transaction of the lost connection
SaleQueryFail(s) ==
  /\ reqs[s].pc \in SaleSteps
  /\ txn' = [txn EXCEPT ![s] = Lost]
  /\ reqs' = [reqs EXCEPT ![s].pc = "sale_rollback"]
  /\ UNCHANGED <<storeVars, issued, now, sockVars, nreq>>

\* catch: client.query('ROLLBACK') rejects, so the catch block throws before
\* res.status(500); finally: client.release()
SaleRollbackFail(s) ==
  /\ reqs[s].pc = "sale_rollback"
  /\ txn' = [txn EXCEPT ![s] = NoTxn]
  /\ Unhandled(s, reqs[s])
  /\ UNCHANGED <<storeVars, issued, now, sockVars, nreq>>

----------------------------------------------------------------------------
(* GET /api/sales, GET /api/dashboard/stats *)

GetSales(s, limit) ==
  /\ CanStart(s, limit)
  /\ \E h \in AuthHeaders :
    LET r == Request("sales", h, NoConn, <<>>)
        a == authenticateToken(h, now) IN
    /\ nreq' = nreq + 1
    /\ a.ok
    /\ Respond(s, r, 200, [sales |-> sales])
    /\ UNCHANGED <<storeVars, issued, now, sockVars, txn>>

RECURSIVE SumTotals(_)
SumTotals(ids) ==
  IF ids = {} THEN 0
  ELSE LET i == CHOOSE j \in ids : TRUE IN sales[i].total + SumTotals(ids \ {i})

DashboardStats ==
  [todaySales |-> SumTotals({i \in DOMAIN sales : sales[i].date = now}),
   totalProducts |-> Cardinality(DOMAIN products),
   lowStock |-> Cardinality({p \in DOMAIN products : products[p].stock < LowStockThreshold}),
   totalUsers |-> Cardinality({i \in DOMAIN users : users[i].status = "active"}),
   pendingUsers |-> Cardinality({i \in DOMAIN users : users[i].status = "pending"})]

GetStats(s, limit) ==
  /\ CanStart(s, limit)
  /\ \E h \in AuthHeaders :
    LET r == Request("stats", h, NoConn, <<>>)
        a == authenticateToken(h, now) IN
    /\ nreq' = nreq + 1
    /\ a.ok
    /\ Respond(s, r, 200, [stats |-> DashboardStats])
    /\ UNCHANGED <<storeVars, issued, now, sockVars, txn>>

----------------------------------------------------------------------------

\* a day passes
Tick ==
  /\ now < MaxDays
  /\ now' = now + 1
  /\ UNCHANGED <<storeVars, issued, sockVars, reqs, txn, nreq>>

Init ==
  /\ \E db \in Databases :
       /\ users = db.users
       /\ userSeq = NextId(db.users)
       /\ products = db.products
       /\ prodSeq = NextId(db.products)
  /\ sales = NoSales
  /\ saleSeq = 1
  /\ saleItems = NoItems
  /\ itemSeq = 1
  /\ issued = {}
  /\ now = 0
  /\ sockets = [c \in Conns |-> "fresh"]
  /\ activeUsers = [c \in {} |-> 0]
  /\ inbox = [c \in Conns |-> <<>>]
  /\ reqs = [s \in Slots |-> Idle]
  /\ txn = [s \in Slots |-> NoTxn]
  /\ nreq = 0
  /\ nsock = 0

Accounts(limit) ==
  \E s \in Slots :
    \/ RegisterCheck(s, limit)
    \/ RegisterCount(s)
    \/ RegisterInsert(s)
    \/ LoginFind(s, limit)
    \/ LoginCompare(s)
    \/ LoginUpdate(s)
    \/ AuthReject(s, limit)
    \/ GetUsers(s, limit)
    \/ GetPendingUsers(s, limit)
    \/ ApproveUser(s, limit)

Connections ==
  \E c \in Conns :
    \/ Connect(c)
    \/ Disconnect(c)

Messages ==
  \E c \in Conns :
    \/ Authenticate(c)
    \/ RelayProductUpdated(c)
    \/ RelaySaleCreated(c)

Login(limit) ==
  \E s \in Slots :
    \/ LoginFind(s, limit)
    \/ LoginCompare(s)
    \/ LoginUpdate(s)

Guarded(limit) ==
  \E s \in Slots :
    \/ AuthReject(s, limit)
    \/ GetUsers(s, limit)
    \/ GetPendingUsers(s, limit)
    \/ ApproveUser(s, limit)

Inventory(limit) ==
  \E s \in Slots :
    \/ GetProducts(s, limit)
    \/ CreateProduct(s, limit)
    \/ UpdateStock(s, limit)
    \/ GetSales(s, limit)
    \/ GetStats(s, limit)

Sales(limit) ==
  \E s \in Slots :
    \/ SaleConnect(s, limit)
    \/ SaleBegin(s)
    \/ SaleInsert(s)
    \/ SaleInsertItem(s)
    \/ SaleUpdateStock(s)
    \/ SaleCommit(s)
    \/ SaleEmit(s)
    \/ SaleRollback(s)

Faults(limit) ==
  \E s \in Slots :
    \/ SaleConnectFail(s, limit)
    \/ SaleQueryFail(s)
    \/ SaleRollbackFail(s)

\* the real-time layer alone: connections and the messages clients send
NextPresence == Connections \/ Messages

SpecPresence == Init /\ [][NextPresence]_vars

\* every route, one request at a time
Sequential == [inflight |-> 1, requests |-> MaxReq]

Next ==
  \/ Login(Sequential)
  \/ Guarded(Sequential)
  \/ Inventory(Sequential)
  \/ Sales(Sequential)
  \/ Connections
  \/ Tick

Spec == Init /\ [][Next]_vars

\* the account routes, one request at a time
SequentialAccounts == [inflight |-> 1, requests |-> MaxAccountReq]

NextAccounts == Accounts(SequentialAccounts) \/ Tick

SpecAccounts == Init /\ [][NextAccounts]_vars

\* login and createSale, one request at a time, with clients connecting
SequentialSales == [inflight |-> 1, requests |-> MaxSaleReq]

NextSales == Login(SequentialSales) \/ Sales(SequentialSales) \/ Connections

SpecSales == Init /\ [][NextSales]_vars

\* login and createSale, one request at a time, over a connection to the
\* store that may be lost at any step, with clients connecting and relaying
SequentialFaults ==
  [inflight |-> 1, requests |-> MaxFaultReq, items |-> {<<Discs>>, <<Discs, Ghost>>}]

\* clients relaying their own sale_created message
Relays == \E c \in Conns : nsock < MaxRelay /\ RelaySaleCreated(c)

NextFaults ==
  \/ Login(SequentialFaults)
  \/ Sales(SequentialFaults)
  \/ Faults(SequentialFaults)
  \/ Connections
  \/ Relays

SpecFaults == Init /\ [][NextFaults]_vars

\* createSale requests running at the same time on the same products
ConcurrentSales ==
  [inflight |-> 2, requests |-> MaxSaleRaceReq,
   items |-> {<<Discs>>, <<Discs, Cheap>>, <<Cheap, Discs>>, <<Discs, Ghost>>}]

NextSaleRace ==
  \/ Login(ConcurrentSales)
  \/ Sales(ConcurrentSales)
  \/ \E s \in Slots : SaleDeadlock(s)

SpecSaleRace == Init /\ [][NextSaleRace]_vars

\* register requests running at the same time
Concurrent == [inflight |-> 2, requests |-> MaxRaceReq]

NextRace ==
  \E s \in Slots :
    \/ RegisterCheck(s, Concurrent)
    \/ RegisterCount(s)
    \/ RegisterInsert(s)

SpecRace == Init /\ [][NextRace]_vars

----------------------------------------------------------------------------
(* Properties *)

\* the step is one of the request on slot s
StepOf(s) == reqs'[s] # reqs[s]

\* the step answers the request on slot s
Answers(s, kind) == StepOf(s) /\ reqs'[s].pc = "done" /\ reqs'[s].kind = kind

\* the header carries a token signed with the server's secret that has not expired
Genuine(h, t) == Len(h) >= 2 /\ h[2].sig = JWT_SECRET /\ t < h[2].exp

RegisteredNames == RegNames \ {""}

\* C2: registration run sequentially: every successful register call creates
\* a superadmin/active account when the users table held no row (the first
\* call from an empty store) and a cashier/pending account otherwise (every
\* later call), and reports the created row.
C2_FirstIsSuperadmin ==
  [][\A s \in Slots :
       (Answers(s, "register") /\ reqs'[s].status = 200) =>
         LET row == users'[userSeq]
             first == DOMAIN users = {} IN
         /\ DOMAIN users' = DOMAIN users \cup {userSeq}
         /\ row.role = (IF first THEN "superadmin" ELSE "cashier")
         /\ row.status = (IF first THEN "active" ELSE "pending")
         /\ reqs'[s].body.user.role = row.role
         /\ reqs'[s].body.user.status = row.status
         /\ \A i \in DOMAIN users : users'[i] = users[i]]_vars

\* the store started empty; two registrations succeeded
C2_Witness ==
  /\ DOMAIN users = {1, 2}
  /\ users[1].full_name \in RegisteredNames
  /\ users[1].role = "superadmin" /\ users[1].status = "active"
  /\ users[2].full_name \in RegisteredNames
  /\ users[2].role = "cashier" /\ users[2].status = "pending"
  /\ reqs[1].pc = "done" /\ reqs[1].kind = "register" /\ reqs[1].status = 200

\* the accounts created by register (the accounts found at startup have other names)
Registered == {i \in DOMAIN users : users[i].full_name \in RegisteredNames}

\* C3: under any interleaving of register requests with distinct emails on a
\* store that started empty, exactly one registered account is a
\* superadmin/active one and all the others are cashier/pending.
C3_ExactlyOneSuperadmin ==
  (1 \in Registered /\ \A s \in Slots : ~Busy(s)) =>
    /\ Cardinality({i \in Registered : users[i].role = "superadmin"
                                         /\ users[i].status = "active"}) = 1
    /\ \A i \in Registered :
         \/ users[i].role = "superadmin" /\ users[i].status = "active"
         \/ users[i].role = "cashier" /\ users[i].status = "pending"

\* C4: a login is answered with a token only if the email matches a stored
\* user whose hash matches the password and whose status is active; every
\* other login is answered 400 without a token, and leaves the users table
\* (last_login included) and the set of issued tokens unchanged.
C4_LoginGuard ==
  [][/\ \A s \in Slots :
          Answers(s, "login") =>
            LET r == reqs'[s]
                good == \E i \in DOMAIN users :
                          /\ users[i].email = r.in.email
                          /\ users[i].password.digest
                               = Digest(r.in.password, users[i].password.salt)
                          /\ users[i].status = "active"
            IN
            IF good
            THEN r.status = 200 /\ r.body.token \in issued'
            ELSE /\ r.status = 400
                 /\ "token" \notin DOMAIN r.body
                 /\ users' = users
                 /\ issued' = issued
     /\ (issued' # issued \/ \E i \in DOMAIN users : users'[i].last_login # users[i].last_login)
          => \E s \in Slots : Answers(s, "login") /\ reqs'[s].status = 200]_vars

\* a pending account logged in with its password and was refused, after
\* another account had logged in
C4_Witness ==
  \E s \in Slots :
    /\ reqs[s].pc = "done" /\ reqs[s].kind = "login" /\ reqs[s].status = 400
    /\ reqs[s].in.email = "pend@x.com" /\ reqs[s].in.password = "pw"
    /\ 3 \in DOMAIN users
    /\ users[3].status = "pending" /\ users[3].last_login = NULL
    /\ issued # {}

\* the caller of an admin-only route presents a genuine token of an admin
ByAdmin(r, t) == Genuine(r.auth, t) /\ r.auth[2].role \in {"superadmin", "admin"}

\* C8: approve by an admin on a user whose status is already active answers
\* 200 with that user and leaves the whole users table as it was (so a second
\* approve changes nothing the first did not); approve on an id that matches
\* no user answers 404 and changes no user; approve on any other user makes
\* that user active and changes no other.
C8_IdempotentApproval ==
  [][\A s \in Slots :
       (Answers(s, "approve") /\ ByAdmin(reqs'[s], now)) =>
         LET r == reqs'[s]
             id == r.in.id IN
         IF id \notin DOMAIN users
         THEN r.status = 404 /\ users' = users
         ELSE /\ r.status = 200
              /\ r.body.user.id = id /\ r.body.user.status = "active"
              /\ users' = [users EXCEPT ![id].status = "active"]
              /\ (users[id].status = "active" => users' = users)]_vars

\* the default super admin, active since startup, was approved: 200, still active
C8_Witness ==
  \E s \in Slots :
    /\ reqs[s].pc = "done" /\ reqs[s].kind = "approve" /\ reqs[s].status = 200
    /\ reqs[s].in.id = 1
    /\ users[1].email = DefaultAdmin.email /\ users[1].status = "active"

\* C9: listPending and approve called with a genuine token whose role is
\* manager or cashier answer 403 with an error body that holds no user data,
\* and leave the users table unchanged.
C9_RoleGate ==
  [][\A s \in Slots :
       ( /\ StepOf(s)
         /\ reqs'[s].kind \in {"pending", "approve"}
         /\ Genuine(reqs'[s].auth, now)
         /\ reqs'[s].auth[2].role \in {"manager", "cashier"} ) =>
           /\ reqs'[s].pc = "done"
           /\ reqs'[s].status = 403
           /\ DOMAIN reqs'[s].body = {"error"}
           /\ users' = users]_vars

\* a manager asked to approve the pending account and was refused
C9_Witness ==
  \E s \in Slots :
    /\ reqs[s].pc = "done" /\ reqs[s].kind = "approve" /\ reqs[s].status = 403
    /\ Len(reqs[s].auth) = 2
    /\ reqs[s].auth[2].sig = JWT_SECRET /\ reqs[s].auth[2].role = "manager"
    /\ reqs[s].in.id = 3
    /\ 3 \in DOMAIN users /\ users[3].status = "pending"

\* the request on slot s is a createSale that passed the token guard
IsSale(r) == r.kind = "sale" /\ r.status \notin {401, 403}

\* some line of the sale references a product that does not exist
HasBadLine(items) == \E i \in 1..Len(items) : items[i].product_id \notin DOMAIN products

\* C1: sale atomicity: no step of a createSale request with a line that
\* references a nonexistent product (at any position) changes the committed
\* sales, sale_items or products tables; the request ends with a 500 and
\* with no open transaction left.
C1_SaleAtomicity ==
  [][\A s \in Slots :
       (StepOf(s) /\ IsSale(reqs'[s]) /\ HasBadLine(reqs'[s].in.items)) =>
         /\ sales' = sales
         /\ saleItems' = saleItems
         /\ products' = products
         /\ reqs'[s].pc # "sale_emit"
         /\ reqs'[s].pc = "done" => (reqs'[s].status = 500 /\ ~txn'[s].open)]_vars

\* a sale whose second line is the bad one was rolled back after its first
\* line and the sale row had been written inside the transaction
C1_Witness ==
  \E s \in Slots :
    /\ reqs[s].pc = "done" /\ reqs[s].kind = "sale" /\ reqs[s].status = 500
    /\ Len(reqs[s].in.items) = 2
    /\ reqs[s].in.items[1].product_id \in DOMAIN products
    /\ reqs[s].in.items[2].product_id \notin DOMAIN products
    /\ saleSeq = 2 /\ itemSeq = 3
    /\ sales = NoSales /\ saleItems = NoItems
    /\ products = PopulatedProducts

ItemsOf(sale) == {i \in DOMAIN saleItems : saleItems[i].sale_id = sale}

RECURSIVE SumTotalPrice(_)
SumTotalPrice(ids) ==
  IF ids = {} THEN 0
  ELSE LET i == CHOOSE j \in ids : TRUE IN saleItems[i].total_price + SumTotalPrice(ids \ {i})

\* C5: sale total correctness: the total of every persisted sale equals the
\* sum of the total_price values of the sale_items rows persisted for it.
C5_TotalIsSumOfLines ==
  \A sale \in DOMAIN sales : sales[sale].total = SumTotalPrice(ItemsOf(sale))

RECURSIVE QuantityOf(_, _, _)
QuantityOf(items, i, p) ==
  IF i > Len(items) THEN 0
  ELSE (IF items[i].product_id = p THEN items[i].quantity ELSE 0) + QuantityOf(items, i + 1, p)

\* C6: stock decrement: the commit of a createSale that ran with no other
\* request lowers the stock of every product by the sum of the quantities of
\* the sale's lines that reference it, and changes nothing else of any
\* product (a product no line references keeps its stock).
C6_StockDecrement ==
  [][\A s \in Slots :
       (StepOf(s) /\ reqs[s].pc = "sale_commit") =>
         /\ DOMAIN products' = DOMAIN products
         /\ \A p \in DOMAIN products :
              products'[p] = [products[p] EXCEPT
                                !.stock = @ - QuantityOf(reqs[s].in.items, 1, p)]]_vars

\* a committed sale with two lines of 3 on product 1 took its stock from 20 to 14
C6_Witness ==
  \E s \in Slots :
    /\ reqs[s].pc = "done" /\ reqs[s].kind = "sale" /\ reqs[s].status = 200
    /\ Len(reqs[s].in.items) = 2
    /\ \A i \in 1..2 : reqs[s].in.items[i].product_id = 1 /\ reqs[s].in.items[i].quantity = 3
    /\ products[1].stock = 14
    /\ products[2].stock = 1

SaleCreated(r) ==
  [type |-> "sale_created", from |-> "server", sale |-> r.sale,
   items |-> r.in.items, user |-> r.user.name]

\* C7 as stated: when a createSale commits, sale_created is delivered to
\* every other open connection and not to the connection of the client that
\* made the sale.
C7_NotToOwnConnection ==
  [][\A s \in Slots :
       (StepOf(s) /\ reqs[s].pc = "sale_emit") =>
         \A c \in Conns :
           inbox'[c] = IF sockets[c] = "open" /\ c # reqs[s].conn
                       THEN Append(inbox[c], SaleCreated(reqs[s]))
                       ELSE inbox[c]]_vars

\* C7 as amended: when a createSale commits, sale_created is delivered once
\* to every open connection, the one of the client that made the sale
\* included, and to no closed connection.
C7_ToEveryConnection ==
  [][\A s \in Slots :
       (StepOf(s) /\ reqs[s].pc = "sale_emit") =>
         /\ reqs'[s].pc = "done" /\ reqs'[s].status = 200
         /\ reqs[s].sale \in DOMAIN sales
         /\ \A c \in Conns :
              inbox'[c] = IF sockets[c] = "open"
                          THEN Append(inbox[c], SaleCreated(reqs[s]))
                          ELSE inbox[c]]_vars

\* the client on c1 made a sale; c1 and c2 both received its sale_created
C7_Witness ==
  \E s \in Slots :
    /\ reqs[s].pc = "done" /\ reqs[s].kind = "sale" /\ reqs[s].status = 200
    /\ reqs[s].conn = "c1"
    /\ \A c \in Conns :
         /\ Len(inbox[c]) = 1
         /\ inbox[c][1].type = "sale_created"
         /\ inbox[c][1].sale = reqs[s].body.sale

\* C10: a request on a protected route without a bearer token is answered
\* 401, one with a token that is forged or expired is answered 403; in both
\* cases the answer is immediate and the step changes no table, no sequence,
\* no transaction, no issued token and no connection's inbox.
C10_AuthGuard ==
  [][\A s \in Slots :
       (StepOf(s) /\ nreq' = nreq + 1 /\ reqs'[s].kind \in ProtectedRoutes
          /\ ~Genuine(reqs'[s].auth, now)) =>
         /\ reqs'[s].pc = "done"
         /\ reqs'[s].status = (IF Len(reqs'[s].auth) < 2 THEN 401 ELSE 403)
         /\ DOMAIN reqs'[s].body = {"error"}
         /\ UNCHANGED <<storeVars, txn, issued, sockVars>>]_vars

\* a sale was asked for with a token the server had signed, now expired,
\* while a connection was open: 403
C10_Witness ==
  \E s \in Slots :
    /\ reqs[s].pc = "done" /\ reqs[s].kind = "sale" /\ reqs[s].status = 403
    /\ Len(reqs[s].auth) = 2
    /\ reqs[s].auth[2] \in issued /\ reqs[s].auth[2].exp <= now
    /\ \E c \in Conns : sockets[c] = "open"

\* the user_offline event of connection c
UserOffline(c) ==
  [type |-> "user_offline", from |-> c,
   userId |-> activeUsers[c].id, userName |-> activeUsers[c].full_name]

\* C11: presence on disconnect: the registry holds entries only for
\* connections that are still connected; when a connection that has sent
\* authenticate disconnects, its entry is removed and user_offline for its
\* identity goes to every other open connection and not to itself; when a
\* connection that never authenticated disconnects, the registry and every
\* inbox are unchanged.
C11_PresenceOnDisconnect ==
  /\ [](DOMAIN activeUsers \subseteq OpenConns)
  /\ [][\A c \in Conns :
          (sockets[c] = "open" /\ sockets'[c] = "closed") =>
            IF c \in DOMAIN activeUsers
            THEN /\ DOMAIN activeUsers' = DOMAIN activeUsers \ {c}
                 /\ \A d \in Conns :
                      inbox'[d] = IF d # c /\ sockets[d] = "open"
                                  THEN Append(inbox[d], UserOffline(c))
                                  ELSE inbox[d]
            ELSE activeUsers' = activeUsers /\ inbox' = inbox]_vars

\* C12: every createSale request receives a response, success or a 500: a
\* createSale handler that has ended has answered 200 or 500 and holds no
\* pooled store connection, whichever store step failed.
C12_EveryCreateSaleAnswered ==
  \A s \in Slots :
    (reqs[s].pc = "done" /\ IsSale(reqs[s])) =>
      /\ reqs[s].status \in {200, 500}
      /\ ~txn[s].client

\* a sale_created event published by the createSale handler (not a relay)
IsServerSale(e) == e.type = "sale_created" /\ e.from = "server"

\* the events the step delivers to connection c
Delivered(c) == SubSeq(inbox'[c], Len(inbox[c]) + 1, Len(inbox'[c]))

\* C13: ordering of the server-originated sale_created event: every such
\* event a client holds is for a persisted sale and is held once; it is
\* delivered only by the step of a createSale request that follows its
\* COMMIT and answers 200; a committing request goes on to publish; and no
\* step of a request that ends in an error delivers any event.
C13_SaleEventAfterCommit ==
  /\ [](\A c \in Conns : \A i \in 1..Len(inbox[c]) :
          IsServerSale(inbox[c][i]) =>
            /\ inbox[c][i].sale \in DOMAIN sales
            /\ \A j \in 1..Len(inbox[c]) :
                 (IsServerSale(inbox[c][j]) /\ inbox[c][j].sale = inbox[c][i].sale) => j = i)
  /\ [][/\ \A c \in Conns : \A i \in 1..Len(Delivered(c)) :
              IsServerSale(Delivered(c)[i]) =>
                \E s \in Slots :
                  /\ reqs[s].pc = "sale_emit" /\ reqs'[s].pc = "done" /\ reqs'[s].status = 200
                  /\ Delivered(c) = <<SaleCreated(reqs[s])>>
                  /\ reqs[s].sale \in DOMAIN sales
        /\ \A s \in Slots :
             /\ (StepOf(s) /\ reqs[s].pc = "sale_commit" /\ sales' # sales)
                   => reqs'[s].pc = "sale_emit"
             /\ (StepOf(s) /\ reqs[s].pc = "sale_emit")
                   => \A c \in OpenConns : Delivered(c) = <<SaleCreated(reqs[s])>>
             /\ (StepOf(s) /\ reqs'[s].kind = "sale" /\ reqs'[s].pc = "done"
                    /\ reqs'[s].status # 200)
                   => inbox' = inbox]_vars

\* sale 1 was committed and its event delivered once; a later sale took id 2
\* and was rolled back, and no event for it was delivered
C13_Witness ==
  /\ DOMAIN sales = {1} /\ saleSeq = 3
  /\ reqs[1].pc = "done" /\ reqs[1].kind = "sale" /\ reqs[1].status = 500
  /\ \E c \in Conns :
       /\ Len(inbox[c]) = 1
       /\ IsServerSale(inbox[c][1]) /\ inbox[c][1].sale = 1

\* C14: the only status transition is pending -> active, made by approve: a
\* step changes the status of a stored user only if it is an approve
\* answered 200 for that user, whose status was pending and becomes active;
\* so a blocked user stays blocked.
C14_OnlyPendingToActive ==
  [][\A i \in DOMAIN users :
       users'[i].status # users[i].status =>
         /\ users[i].status = "pending" /\ users'[i].status = "active"
         /\ \E s \in Slots :
              /\ Answers(s, "approve") /\ reqs'[s].status = 200
              /\ reqs'[s].in.id = i]_vars

\* the stock of product p at startup
InitialStock(p) == PopulatedProducts[p].stock

\* C15: every persisted sale_items row has a positive quantity, and no
\* committed sale increases a product's stock.
C15_PositiveQuantity ==
  /\ [](\A i \in DOMAIN saleItems : saleItems[i].quantity > 0)
  /\ [][\A s \in Slots :
          (StepOf(s) /\ reqs[s].pc = "sale_commit") =>
            \A p \in DOMAIN products : products'[p].stock <= products[p].stock]_vars

RECURSIVE SumQuantity(_)
SumQuantity(ids) ==
  IF ids = {} THEN 0
  ELSE LET i == CHOOSE j \in ids : TRUE IN saleItems[i].quantity + SumQuantity(ids \ {i})

\* the persisted lines that reference product p
LinesOf(p) == {i \in DOMAIN saleItems : saleItems[i].product_id = p}

\* C16: no lost stock update: under any interleaving of createSale
\* transactions, the stock of every product equals its initial stock minus
\* the sum of the quantities of its lines in the sales that committed (sales
\* that rolled back have no persisted line); the stock may be negative.
C16_NoLostStockUpdate ==
  \A p \in DOMAIN products :
    products[p].stock = InitialStock(p) - SumQuantity(LinesOf(p))

\* two sales of 3 on product 1 ran interleaved (sale 1 wrote its line after
\* sale 2 wrote its own) and both committed: 20 - 3 - 3
C16_Witness ==
  /\ \A s \in Slots : reqs[s].pc = "done" /\ reqs[s].kind = "sale" /\ reqs[s].status = 200
  /\ DOMAIN saleItems = {1, 2}
  /\ saleItems[1].sale_id = 2 /\ saleItems[2].sale_id = 1
  /\ saleItems[1].product_id = 1 /\ saleItems[2].product_id = 1
  /\ products[1].stock = 14

====
